---- MODULE Spec2Model ----
(***************************************************************************)
(* A model of combine_ts.py: find_ts_files (an os.walk with pruning, a     *)
(* suffix filter and a final sort), combine_files (one header block and    *)
(* one read per listed file, written to one output file) and main.         *)
(*                                                                         *)
(* A text is a sequence of one-character strings.  A path is the sequence  *)
(* of its components below the anchor "/", each component a text.          *)
(***************************************************************************)
EXTENDS Integers, Sequences, FiniteSets, TLC

(* ------------------------------ bounds -------------------------------- *)

\* Source files placed in the tree (the output file is not counted).
MaxFiles == 2

\* Invocations of main in one behaviour.
MaxRuns == 2

(* --------------------------- str comparison --------------------------- *)

\* Code points of the characters that occur in the modelled file names.
Ord ==
    ("." :> 46) @@ ("/" :> 47) @@ ("S" :> 83) @@ ("T" :> 84) @@ ("_" :> 95) @@
    ("a" :> 97) @@ ("b" :> 98) @@ ("c" :> 99) @@ ("d" :> 100) @@ ("e" :> 101) @@
    ("g" :> 103) @@ ("h" :> 104) @@ ("i" :> 105) @@ ("j" :> 106) @@
    ("l" :> 108) @@ ("m" :> 109) @@ ("n" :> 110) @@ ("o" :> 111) @@
    ("p" :> 112) @@ ("r" :> 114) @@ ("s" :> 115) @@ ("t" :> 116) @@
    ("u" :> 117) @@ ("v" :> 118) @@ ("w" :> 119) @@ ("x" :> 120) @@ ("y" :> 121)

\* Python's s < t on str: the first differing character decides by code
\* point; a proper prefix is smaller.
RECURSIVE StrLess(_, _)
StrLess(s, t) ==
    IF t = <<>> THEN FALSE
    ELSE IF s = <<>> THEN TRUE
    ELSE IF s[1] = t[1] THEN StrLess(Tail(s), Tail(t))
    ELSE Ord[s[1]] < Ord[t[1]]

\* str(path) of an absolute path: "/" before every component.
RECURSIVE PathStr(_)
PathStr(p) ==
    IF p = <<>> THEN <<>> ELSE <<"/">> \o p[1] \o PathStr(Tail(p))

\* A comparison of the two paths' strings instead of their parts.
PathLessByString(p, q) == StrLess(PathStr(p), PathStr(q))

\* PurePath.__lt__: the two paths' parts are compared as sequences of str,
\* the first differing component deciding by str comparison.
RECURSIVE PathLess(_, _)
PathLess(p, q) ==
    IF q = <<>> THEN FALSE
    ELSE IF p = <<>> THEN TRUE
    ELSE IF p[1] = q[1] THEN PathLess(Tail(p), Tail(q))
    ELSE StrLess(p[1], q[1])

RECURSIVE Insert(_, _)
Insert(x, s) ==
    IF s = <<>> THEN <<x>>
    ELSE IF PathLess(x, s[1]) THEN <<x>> \o s
    ELSE <<s[1]>> \o Insert(x, Tail(s))

\* sorted(ts_files): the ascending rearrangement under PurePath.__lt__.
RECURSIVE sorted(_)
sorted(s) ==
    IF s = <<>> THEN <<>>
    ELSE Insert(s[Len(s)], sorted(SubSeq(s, 1, Len(s) - 1)))

(* ------------------------------- names -------------------------------- *)

SKIP_DIRS ==
    { <<"n","o","d","e","_","m","o","d","u","l","e","s">>,
      <<"d","i","s","t">>,
      <<"b","u","i","l","d">>,
      <<".","n","e","x","t">>,
      <<"o","u","t">>,
      <<"c","o","v","e","r","a","g","e">>,
      <<".","t","u","r","b","o">>,
      <<".","c","a","c","h","e">>,
      <<"_","_","p","y","c","a","c","h","e","_","_">>,
      <<".","g","i","t">> }

\* The suffixes of filename.endswith(('.ts', '.tsx')).
Suffixes == { <<".","t","s">>, <<".","t","s","x">> }

\* str.endswith with one suffix.
EndsWith(name, suf) ==
    /\ Len(name) >= Len(suf)
    /\ SubSeq(name, Len(name) - Len(suf) + 1, Len(name)) = suf

\* A filter that knows the first suffix only.
IsTsNameFirstOnly(name) == EndsWith(name, <<".","t","s">>)

\* str.endswith with a tuple of suffixes: any of them.
IsTsName(name) == \E suf \in Suffixes : EndsWith(name, suf)

(* ------------------------------- paths -------------------------------- *)

\* A relative path that keeps the separator in front.
RelStrLeadingSep(p) == PathStr(p)

\* str(path) of a relative path: the components joined by "/", "." if none.
RelStr(p) ==
    IF p = <<>> THEN <<".">> ELSE Tail(PathStr(p))

IsPrefix(r, p) == Len(r) <= Len(p) /\ SubSeq(p, 1, Len(r)) = r

\* ts_file.relative_to(root_path): the components after the root's, or
\* ValueError when root_path is not a leading part of ts_file.
RelativeTo(p, r) ==
    IF IsPrefix(r, p)
    THEN [ok |-> TRUE, rel |-> SubSeq(p, Len(r) + 1, Len(p))]
    ELSE [ok |-> FALSE, rel |-> <<>>]

Parent(p) == SubSeq(p, 1, Len(p) - 1)
Name(p) == p[Len(p)]

\* Every directory from r down to the parent of p (r a prefix of p).
Ancestors(r, p) == { SubSeq(p, 1, k) : k \in Len(r)..(Len(p) - 1) }

(* --------------------------- the file system -------------------------- *)

n_r == <<"r">>
n_w == <<"w">>
n_a == <<"a">>
n_ab == <<"a",".","b">>
n_dist == <<"d","i","s","t">>
n_xts == <<"x",".","t","s">>
n_m_ts == <<"m",".","t","s">>
n_m_tsx == <<"m",".","t","s","x">>
n_m_TS == <<"m",".","T","S">>
n_m_js == <<"m",".","j","s">>
n_combined == <<"c","o","m","b","i","n","e","d",".","t","s">>

\* The scanned root: the resolved path argument.  Its own name may be a
\* skip-set name.
Roots == { <<n_r>>, <<n_dist>> }

\* Source files that may exist below the root: path relative to the root,
\* and body.
Candidates ==
    { [rel |-> <<n_m_ts>>,               body |-> <<>>],
      [rel |-> <<n_m_TS>>,               body |-> <<"1">>],
      [rel |-> <<n_m_js>>,               body |-> <<"2">>],
      [rel |-> <<n_a, n_m_ts>>,          body |-> <<"3">>],
      [rel |-> <<n_ab, n_m_ts>>,         body |-> <<"4">>],
      [rel |-> <<n_dist, n_a, n_m_ts>>,  body |-> <<"5">>],
      [rel |-> <<n_a, n_dist, n_m_tsx>>, body |-> <<"6">>],
      [rel |-> <<n_a, n_xts, n_m_tsx>>,  body |-> <<"7">>] }

\* Path.cwd() / args.output: outside the root, directly in the root under
\* the default name combined.ts, or in a skip-set directory of the root.
Outputs(r) ==
    { <<n_w, n_combined>>, r \o <<n_combined>>, r \o <<n_dist, n_combined>> }

\* What an output file left over from before the first run holds.
OldBody == <<"o">>

\* str(e) of the exception a failed read raises.
ErrorText == <<"e","r","r","n","o">>

VARIABLES
    root,        \* root_path
    output,      \* output_path
    dirs,        \* the directories that exist
    files,       \* the regular files that exist
    content,     \* files -> text on disk
    unreadable,  \* files whose read_text raises
    pc,          \* where main is
    run,         \* number of the current invocation of main
    stack,       \* os.walk: directories still to list, next one first
    ts_files,    \* find_ts_files: ts_files, then main's ts_files
    out,         \* combine_files: the text each finished iteration wrote
    idx,         \* combine_files: position of the for loop in ts_files
    rc,          \* main's return value, -1 while there is none
    printed,     \* what the current run has printed
    pre,         \* the output file as the current run found it
    calledFind,  \* the current run has called find_ts_files
    calledCombine, \* the current run has called combine_files
    finds,       \* per completed discovery: the tree and the result
    ends         \* per returned run: return value, list, output file

vars == << root, output, dirs, files, content, unreadable, pc, run, stack,
           ts_files, out, idx, rc, printed, pre, calledFind, calledCombine,
           finds, ends >>

Range(s) == { s[k] : k \in DOMAIN s }

\* The orders in which a directory listing can enumerate the set S.
Orders(S) == { s \in [1..Cardinality(S) -> S] : Range(s) = S }

RECURSIVE Flatten(_)
Flatten(chunks) ==
    IF chunks = <<>> THEN <<>> ELSE chunks[1] \o Flatten(Tail(chunks))

\* The output file as a value: whether it exists and what it holds.
FileState(fs, ct, f) ==
    IF f \in fs THEN [exists |-> TRUE, body |-> ct[f]]
    ELSE [exists |-> FALSE, body |-> <<>>]

Init ==
    /\ root \in Roots
    /\ output \in Outputs(root)
    /\ \E kind \in {"dir", "file", "missing"} :
       \E chosen \in SUBSET Candidates :
       \E old \in BOOLEAN :
          /\ Cardinality(chosen) <= MaxFiles
          /\ kind # "dir" => chosen = {} /\ output = <<n_w, n_combined>>
          /\ LET src == { root \o c.rel : c \in chosen }
                 oldf == IF old THEN {output} ELSE {}
             IN  /\ files = src \cup oldf \cup (IF kind = "file" THEN {root} ELSE {})
                 /\ dirs = {<<>>, <<n_w>>}
                           \cup (IF kind = "dir" THEN {root} ELSE {})
                           \cup UNION { Ancestors(root, f) : f \in src }
                           \cup UNION { Ancestors(<<>>, f) : f \in oldf }
                 /\ content = [f \in files |->
                       IF f \in src
                       THEN (CHOOSE c \in chosen : root \o c.rel = f).body
                       ELSE OldBody]
                 /\ unreadable \in SUBSET src
    /\ pc = "start"
    /\ run = 1
    /\ stack = <<>>
    /\ ts_files = <<>>
    /\ out = <<>>
    /\ idx = 0
    /\ rc = -1
    /\ printed = <<>>
    /\ pre = FileState(files, content, output)
    /\ calledFind = FALSE
    /\ calledCombine = FALSE
    /\ finds = <<>>
    /\ ends = <<>>

(* ---------------------------- find_ts_files --------------------------- *)

\* str(n) of a natural number.
RECURSIVE Str(_)
Str(n) ==
    LET digit(d) == <<"0","1","2","3","4","5","6","7","8","9">>[d + 1]
    IN  IF n < 10 THEN << digit(n) >> ELSE Str(n \div 10) \o << digit(n % 10) >>

\* One print call: the fixed words of the message and the value its f-string
\* inserts.
Printed(words, value) == [msg |-> words, arg |-> value]

\* main without the test of root_path.exists().
MainStartNoCheck ==
    /\ pc = "start"
    /\ pre' = FileState(files, content, output)
    /\ pc' = "walk"
    /\ stack' = <<root>>
    /\ ts_files' = <<>>
    /\ calledFind' = TRUE
    /\ printed' = << Printed("Searching for TypeScript files in: ", PathStr(root)) >>
    /\ UNCHANGED << root, output, dirs, files, content, unreadable, run, out,
                    idx, rc, calledCombine, finds, ends >>

\* main, up to the call of find_ts_files: a root that does not exist makes
\* main return 1; otherwise the walk starts at the root.
MainStart ==
    /\ pc = "start"
    /\ pre' = FileState(files, content, output)
    /\ IF root \notin dirs /\ root \notin files
       THEN /\ pc' = "done"
            /\ rc' = 1
            /\ printed' = << Printed("Error: Path does not exist", PathStr(root)) >>
            /\ ends' = Append(ends, [rc |-> 1, list |-> <<>>,
                                     file |-> FileState(files, content, output)])
            /\ UNCHANGED << stack, ts_files, calledFind >>
       ELSE /\ pc' = "walk"
            /\ stack' = <<root>>
            /\ ts_files' = <<>>
            /\ calledFind' = TRUE
            /\ printed' = << Printed("Searching for TypeScript files in: ", PathStr(root)) >>
            /\ UNCHANGED << rc, ends >>
    /\ UNCHANGED << root, output, dirs, files, content, unreadable, run, out,
                    idx, calledCombine, finds >>

\* No pruning of dirnames.
PruneNothing(dirnames) == dirnames

\* dirnames[:] = [d for d in dirnames if d not in SKIP_DIRS]
Prune(dirnames) == SelectSeq(dirnames, LAMBDA d : d \notin SKIP_DIRS)

\* The paths the inner loop appends for one directory.
Matching(top, filenames) ==
    LET hit == SelectSeq(filenames, IsTsName)
    IN  [k \in 1..Len(hit) |-> top \o <<hit[k]>>]

\* One iteration of the os.walk loop: the next directory is listed (its
\* entries in any order), its skip-set subdirectories are dropped from the
\* descent and its matching file names are appended.  A path that cannot be
\* listed (the root is a regular file) yields nothing.
WalkDir ==
    /\ pc = "walk"
    /\ stack # <<>>
    /\ LET top == Head(stack)
           subdirs == { Name(d) : d \in { e \in dirs : e # <<>> /\ Parent(e) = top } }
           nondirs == { Name(f) : f \in { e \in files : e # <<>> /\ Parent(e) = top } }
       IN  IF top \notin dirs
           THEN /\ stack' = Tail(stack)
                /\ UNCHANGED ts_files
           ELSE \E dirnames \in Orders(subdirs) :
                \E filenames \in Orders(nondirs) :
                   LET kept == Prune(dirnames)
                   IN  /\ ts_files' = ts_files \o Matching(top, filenames)
                       /\ stack' = [k \in 1..Len(kept) |-> top \o <<kept[k]>>]
                                   \o Tail(stack)
    /\ UNCHANGED << printed, root, output, dirs, files, content, unreadable, pc, run,
                    out, idx, rc, pre, calledFind, calledCombine, finds, ends >>

\* The list in the order of the walk.
FindResultUnsorted(walked) == walked

\* return sorted(ts_files)
FindResult(walked) == sorted(walked)

FindReturn ==
    /\ pc = "walk"
    /\ stack = <<>>
    /\ ts_files' = FindResult(ts_files)
    /\ finds' = Append(finds, [files |-> files, dirs |-> dirs,
                               list |-> ts_files'])
    /\ pc' = "found"
    /\ UNCHANGED << printed, root, output, dirs, files, content, unreadable, run, stack,
                    out, idx, rc, pre, calledFind, calledCombine, ends >>

(* ---------------------------- combine_files --------------------------- *)

\* A main that opens the output file before it looks at ts_files.
MainNoFilesTouch ==
    /\ pc = "found"
    /\ ts_files = <<>>
    /\ pc' = "done"
    /\ rc' = 0
    /\ printed' = Append(printed, Printed("No TypeScript files found", <<>>))
    /\ files' = files \cup {output}
    /\ content' = [f \in files' |-> IF f = output THEN <<>> ELSE content[f]]
    /\ ends' = Append(ends, [rc |-> 0, list |-> ts_files,
                             file |-> FileState(files', content', output)])
    /\ UNCHANGED << root, output, dirs, unreadable, run, stack, ts_files, out,
                    idx, pre, calledFind, calledCombine, finds >>

\* if not ts_files: return 0
MainNoFiles ==
    /\ pc = "found"
    /\ ts_files = <<>>
    /\ pc' = "done"
    /\ rc' = 0
    /\ printed' = Append(printed, Printed("No TypeScript files found", <<>>))
    /\ ends' = Append(ends, [rc |-> 0, list |-> ts_files,
                             file |-> FileState(files, content, output)])
    /\ UNCHANGED << root, output, dirs, files, content, unreadable, run, stack,
                    ts_files, out, idx, pre, calledFind, calledCombine, finds >>

\* open(output_path, 'w') succeeds when the parent directory exists and the
\* path is not a directory.
CanOpen(p) == Parent(p) \in dirs /\ p \notin dirs

\* The count is printed and combine_files called; open(output_path, 'w')
\* creates the file or truncates it.
CombineOpen ==
    /\ pc = "found"
    /\ ts_files # <<>>
    /\ CanOpen(output)
    /\ printed' = Append(printed, Printed("Found TypeScript files", Str(Len(ts_files))))
    /\ calledCombine' = TRUE
    /\ files' = files \cup {output}
    /\ content' = [f \in files' |-> IF f = output THEN <<>> ELSE content[f]]
    /\ out' = <<>>
    /\ idx' = 1
    /\ pc' = "combine"
    /\ UNCHANGED << root, output, dirs, unreadable, run, stack, ts_files, rc,
                    pre, calledFind, finds, ends >>

\* The count is printed and combine_files called, but open raises: the
\* exception leaves main, which returns nothing.
CombineOpenFails ==
    /\ pc = "found"
    /\ ts_files # <<>>
    /\ ~CanOpen(output)
    /\ printed' = Append(printed, Printed("Found TypeScript files", Str(Len(ts_files))))
    /\ calledCombine' = TRUE
    /\ pc' = "crashed"
    /\ UNCHANGED << root, output, dirs, files, content, unreadable, run, stack,
                    ts_files, out, idx, rc, pre, calledFind, finds, ends >>

SepWidth == 80

\* separator = "=" * 80
separator == [k \in 1..SepWidth |-> "="]

\* The three writes of the header: f"\n{separator}\n",
\* f"// FILE: {relative_path}\n", f"{separator}\n\n".
HeaderWrites(rel) ==
    << <<"\n">> \o separator \o <<"\n">>,
       <<"/","/"," ","F","I","L","E",":"," ">> \o RelStr(rel) \o <<"\n">>,
       separator \o <<"\n","\n">> >>

\* The content without the "\n" after it.
ContentWritesNoNewline(text) == << text >>

\* The writes after a read that returned text: the content, then "\n".
ContentWrites(text) == << text, <<"\n">> >>

\* An except branch that writes nothing.
ErrorWritesNothing(e) == << >>

\* The write of the except branch: f"// ERROR reading file: {e}\n".
ErrorWrites(e) ==
    << <<"/","/"," ","E","R","R","O","R"," ","r","e","a","d","i","n","g"," ",
         "f","i","l","e",":"," ">> \o e \o <<"\n">> >>

\* The characters a text file object holds back before it passes anything
\* on towards the disk (the chunk size of io.TextIOWrapper).
ChunkSize == 8192

\* ts_file.read_text(): the texts the read may return, or none when it
\* raises.  Reading the output file itself returns what has reached the disk
\* of the text written so far (the earlier iterations' and this header):
\* nothing while that is shorter than the chunk size, else some leading part.
ReadTexts(f, done, head) ==
    IF f \notin files \/ f \in unreadable THEN {}
    ELSE IF f = output
    THEN LET written == Flatten(done) \o Flatten(head)
         IN  IF Len(written) < ChunkSize THEN { <<>> }
             ELSE { SubSeq(written, 1, n) : n \in 0..Len(written) }
    ELSE { content[f] }

\* One iteration of the for loop of combine_files; out gains the text the
\* iteration writes.
CombineFile ==
    /\ pc = "combine"
    /\ idx <= Len(ts_files)
    /\ LET ts_file == ts_files[idx]
           r == RelativeTo(ts_file, root)
       IN  IF ~r.ok
           THEN /\ pc' = "crashed"
                /\ content' = [content EXCEPT ![output] = Flatten(out)]
                /\ UNCHANGED << out, idx >>
           ELSE LET head == HeaderWrites(r.rel)
                    texts == ReadTexts(ts_file, out, head)
                IN  /\ IF texts = {}
                       THEN out' = Append(out,
                                Flatten(head \o ErrorWrites(ErrorText)))
                       ELSE \E text \in texts :
                               out' = Append(out,
                                   Flatten(head \o ContentWrites(text)))
                    /\ idx' = idx + 1
                    /\ UNCHANGED << pc, content >>
    /\ UNCHANGED << printed, root, output, dirs, files, unreadable, run, stack, ts_files,
                    rc, pre, calledFind, calledCombine, finds, ends >>

\* The loop is over: the with statement closes out, and everything written
\* is in the file.
CombineClose ==
    /\ pc = "combine"
    /\ idx > Len(ts_files)
    /\ content' = [content EXCEPT ![output] = Flatten(out)]
    /\ pc' = "combined"
    /\ UNCHANGED << printed, root, output, dirs, files, unreadable, run, stack, ts_files,
                    out, idx, rc, pre, calledFind, calledCombine, finds, ends >>

\* return 0, after combine_files.
MainReturn ==
    /\ pc = "combined"
    /\ pc' = "done"
    /\ rc' = 0
    /\ printed' = Append(printed, Printed("Combined into: ", PathStr(output)))
    /\ ends' = Append(ends, [rc |-> 0, list |-> ts_files,
                             file |-> FileState(files, content, output)])
    /\ UNCHANGED << root, output, dirs, files, content, unreadable, run, stack,
                    ts_files, out, idx, pre, calledFind, calledCombine, finds >>

\* The tool is invoked again with the same arguments.
MainAgain ==
    /\ pc = "done"
    /\ run < MaxRuns
    /\ run' = run + 1
    /\ pc' = "start"
    /\ rc' = -1
    /\ printed' = <<>>
    /\ stack' = <<>>
    /\ ts_files' = <<>>
    /\ out' = <<>>
    /\ idx' = 0
    /\ calledFind' = FALSE
    /\ calledCombine' = FALSE
    /\ UNCHANGED << root, output, dirs, files, content, unreadable, pre, finds,
                    ends >>

Next ==
    \/ MainStart
    \/ WalkDir
    \/ FindReturn
    \/ MainNoFiles
    \/ CombineOpen
    \/ CombineOpenFails
    \/ CombineFile
    \/ CombineClose
    \/ MainReturn
    \/ MainAgain

Spec == Init /\ [][Next]_vars

(* ------------------------------ the claims ---------------------------- *)

\* The regular files of fs below the root that no skip-set directory below
\* the root hides.
Visible(fs) ==
    { f \in fs : /\ Len(f) > Len(root)
                 /\ SubSeq(f, 1, Len(root)) = root
                 /\ \A k \in (Len(root) + 1)..(Len(f) - 1) : f[k] \notin SKIP_DIRS }

\* The last n characters of a file's name.
LastChars(f, n) ==
    LET nm == f[Len(f)]
    IN  IF Len(nm) < n THEN <<>> ELSE SubSeq(nm, Len(nm) - n + 1, Len(nm))

HasTsSuffix(f) ==
    \/ LastChars(f, 3) = <<".","t","s">>
    \/ LastChars(f, 4) = <<".","t","s","x">>

\* What lies at or below the root: the part of the file system a discovery
\* looks at.
TreeOf(fs, ds) ==
    [files |-> { f \in fs : Len(f) >= Len(root) /\ SubSeq(f, 1, Len(root)) = root },
     dirs  |-> { d \in ds : Len(d) >= Len(root) /\ SubSeq(d, 1, Len(root)) = root }]

\* C1: no discovered path has, strictly below the root, an ancestor
\* directory (nearest or more distant) whose name is in the skip set.
C1_NoSkippedAncestor ==
    \A i \in DOMAIN finds :
        \A p \in Range(finds[i].list) :
            \A k \in (Len(root) + 1)..(Len(p) - 1) : p[k] \notin SKIP_DIRS

\* A discovery returned files although the tree holds a .ts file two levels
\* below a skip-set directory of the root.
C1_Witness ==
    \E i \in DOMAIN finds :
        /\ finds[i].list # <<>>
        /\ \E f \in finds[i].files :
              /\ Len(f) = Len(root) + 3
              /\ SubSeq(f, 1, Len(root)) = root
              /\ f[Len(root) + 1] \in SKIP_DIRS
              /\ HasTsSuffix(f)

\* C2: the discovered list holds exactly the files below the root, not
\* hidden by a skip-set directory, whose name ends in .ts or .tsx, each
\* once, and no directory.
C2_ExactlyTheTsFiles ==
    \A i \in DOMAIN finds :
        LET e == finds[i]
        IN  /\ Range(e.list) = { f \in Visible(e.files) : HasTsSuffix(f) }
            /\ Cardinality(Range(e.list)) = Len(e.list)
            /\ Range(e.list) \cap e.dirs = {}

\* A discovery returned a .tsx file from the third level, below a directory
\* whose own name ends in .ts, while the tree also held a file whose name
\* has another suffix.
C2_Witness ==
    \E i \in DOMAIN finds :
        /\ \E p \in Range(finds[i].list) :
              /\ Len(p) = Len(root) + 3
              /\ LastChars(p, 4) = <<".","t","s","x">>
              /\ HasTsSuffix(Parent(p))
        /\ \E f \in Visible(finds[i].files) : ~HasTsSuffix(f)

\* s <= t, character by character.
StrLeq(s, t) == s = t \/ StrLess(s, t)

\* C3 as stated: adjacent entries of the list are in the order of their
\* full path strings, the separator compared as an ordinary character.
C3_SortedByPathString ==
    \A i \in DOMAIN finds :
        \A k \in 1..(Len(finds[i].list) - 1) :
            StrLeq(PathStr(finds[i].list[k]), PathStr(finds[i].list[k + 1]))

\* s comes before t as strings: at the first position where they differ s
\* has the smaller character, or s is a proper prefix of t.
CharsBefore(s, t) ==
    \E k \in 1..Len(t) :
        /\ \A j \in 1..(k - 1) : j <= Len(s) /\ s[j] = t[j]
        /\ \/ k = Len(s) + 1
           \/ k <= Len(s) /\ Ord[s[k]] < Ord[t[k]]

\* p comes before q component by component: at the first component where
\* they differ p's comes before q's as a string, or p's components are a
\* proper prefix of q's.
ComponentsBefore(p, q) ==
    \E k \in 1..Len(q) :
        /\ \A j \in 1..(k - 1) : j <= Len(p) /\ p[j] = q[j]
        /\ \/ k = Len(p) + 1
           \/ k <= Len(p) /\ p[k] # q[k] /\ CharsBefore(p[k], q[k])

\* C3, amended: adjacent entries of the list are in the order of their
\* component sequences, each component compared as a string.
C3_SortedByComponents ==
    \A i \in DOMAIN finds :
        \A k \in 1..(Len(finds[i].list) - 1) :
            ComponentsBefore(finds[i].list[k], finds[i].list[k + 1])

\* A discovery returned two files whose component order and path-string
\* order disagree.
C3_Witness ==
    \E i \in DOMAIN finds :
        \E k \in 1..(Len(finds[i].list) - 1) :
            StrLess(PathStr(finds[i].list[k + 1]), PathStr(finds[i].list[k]))

\* combine_files has run to its end in the current invocation, and the
\* output file is closed.
Combined == pc = "combined" \/ (pc = "done" /\ calledCombine)

Eq80 == [k \in 1..80 |-> "="]

FileLabel == <<"/","/"," ","F","I","L","E",":"," ">>

ErrorLabel ==
    <<"/","/"," ","E","R","R","O","R"," ","r","e","a","d","i","n","g"," ",
      "f","i","l","e",":"," ">>

\* The path string of p with the root's path string and the separator after
\* it removed.
RootRelative(p) ==
    SubSeq(PathStr(p), Len(PathStr(root)) + 2, Len(PathStr(p)))

\* A newline, a line of 80 '=', the line '// FILE: <relative path>', a
\* second line of 80 '=', a blank line.
Header(p) ==
    <<"\n">> \o Eq80 \o <<"\n">> \o FileLabel \o RootRelative(p) \o <<"\n">>
    \o Eq80 \o <<"\n">> \o <<"\n">>

\* The body of a listed file: what is on disk, and for the output file what
\* it held before the run.
BodyOf(p) == IF p = output THEN pre.body ELSE content[p]

ErrorLine == ErrorLabel \o ErrorText \o <<"\n">>

\* C4 as stated: after combine_files the output file is the concatenation,
\* in list order, of one block per listed file, each block the header
\* followed by the file's body, the headers naming distinct relative paths.
C4_HeaderThenBody ==
    Combined =>
        /\ content[output] =
              Flatten([k \in 1..Len(ts_files) |->
                          Header(ts_files[k]) \o BodyOf(ts_files[k])])
        /\ \A j, k \in 1..Len(ts_files) :
              j # k => RootRelative(ts_files[j]) # RootRelative(ts_files[k])

\* What follows the header in the block of the k-th listed file: the error
\* line when its read fails; for the output file itself a leading part of
\* what the run has written up to then, and a newline; otherwise the file's
\* body and a newline.
AfterHeader(k) ==
    LET p == ts_files[k]
        before == Flatten(SubSeq(out, 1, k - 1)) \o Header(p)
    IN  IF p \in unreadable THEN { ErrorLine }
        ELSE IF p = output
        THEN { SubSeq(before, 1, n) \o <<"\n">> : n \in 0..Len(before) }
        ELSE { content[p] \o <<"\n">> }

\* C4, amended: after combine_files the output file is the concatenation,
\* in list order and with nothing in between, of one block per listed file:
\* the header, then the text read from the file and a newline (or the error
\* line when the read fails); the headers name distinct relative paths.
C4_HeaderBodyNewline ==
    Combined =>
        /\ Len(out) = Len(ts_files)
        /\ content[output] = Flatten(out)
        /\ \A k \in 1..Len(ts_files) :
              \E rest \in AfterHeader(k) : out[k] = Header(ts_files[k]) \o rest
        /\ \A j, k \in 1..Len(ts_files) :
              j # k => RootRelative(ts_files[j]) # RootRelative(ts_files[k])

\* combine_files has overwritten an output file left from before with the
\* blocks of two readable files, neither of them the output file.
C4_Witness ==
    /\ Combined
    /\ pre.exists /\ pre.body = OldBody
    /\ Len(ts_files) = 2
    /\ \A k \in 1..2 : ts_files[k] \notin unreadable /\ ts_files[k] # output
    /\ \E k \in 1..2 : content[ts_files[k]] # <<>>

\* C5: a failing read does not end the run: the file's block is its header
\* and the error line, and every other listed file has its block with its
\* content; main returns 0.
C5_FailedReadKeepsGoing ==
    /\ pc = "crashed" => idx = 0
    /\ pc = "combine" => Len(out) = idx - 1
    /\ Combined =>
          /\ Len(out) = Len(ts_files)
          /\ pc = "done" => rc = 0
          /\ \A k \in 1..Len(ts_files) :
                LET p == ts_files[k]
                IN  /\ p \in unreadable => out[k] = Header(p) \o ErrorLine
                    /\ p \notin unreadable /\ p # output =>
                          out[k] = Header(p) \o content[p] \o <<"\n">>
                    /\ p = output =>
                          SubSeq(out[k], 1, Len(Header(p))) = Header(p)

\* A run returned after a failed read of the first listed file and a
\* successful read of the second.
C5_Witness ==
    /\ pc = "done" /\ calledCombine
    /\ Len(ts_files) = 2
    /\ ts_files[1] \in unreadable
    /\ ts_files[2] \notin unreadable
    /\ content[ts_files[2]] # <<>>

\* C6: a run that finds no matching file returns 0 without calling
\* combine_files, and leaves the output file as it found it.
C6_NothingFoundNothingWritten ==
    (pc = "done" /\ calledFind /\ ts_files = <<>>) =>
        /\ rc = 0
        /\ ~calledCombine
        /\ FileState(files, content, output) = pre
        /\ printed[Len(printed)].msg = "No TypeScript files found"

\* Such a run has returned although the tree below the root holds files,
\* and an output file from before exists.
C6_Witness ==
    /\ pc = "done" /\ calledFind /\ ts_files = <<>>
    /\ pre.exists
    /\ \E f \in files : Len(f) > Len(root) /\ SubSeq(f, 1, Len(root)) = root
                        /\ HasTsSuffix(f)

RootExists == root \in dirs \/ root \in files

\* C7: when the root does not exist main returns 1 without calling
\* find_ts_files or combine_files and leaves the output file as it found
\* it; every other run that returns returns 0.
C7_MissingRootReturnsOne ==
    pc = "done" =>
        IF RootExists
        THEN rc = 0
        ELSE /\ rc = 1
             /\ Len(printed) = 1 /\ printed[1].msg = "Error: Path does not exist"
             /\ ~calledFind
             /\ ~calledCombine
             /\ FileState(files, content, output) = pre

\* main has returned 1 with an output file from before in place.
C7_Witness == pc = "done" /\ rc = 1 /\ ~RootExists /\ pre.exists

\* C8: two discoveries over the same tree return the same list in the same
\* order.
C8_SameTreeSameList ==
    \A i, j \in DOMAIN finds :
        TreeOf(finds[i].files, finds[i].dirs) = TreeOf(finds[j].files, finds[j].dirs)
            => finds[i].list = finds[j].list

\* Two discoveries of one behaviour saw the same tree, with two or more
\* matching files in two directories.
C8_Witness ==
    \E i, j \in DOMAIN finds :
        /\ i < j
        /\ TreeOf(finds[i].files, finds[i].dirs) = TreeOf(finds[j].files, finds[j].dirs)
        /\ Len(finds[i].list) >= 2
        /\ Parent(finds[i].list[1]) # Parent(finds[i].list[2])

\* The relative path in the header of a block: the characters between
\* '// FILE: ' and the end of that line.
HeaderPath(block) ==
    LET first == Len(<<"\n">> \o Eq80 \o <<"\n">> \o FileLabel) + 1
        eol == CHOOSE n \in first..Len(block) :
                  /\ block[n] = "\n"
                  /\ \A m \in first..(n - 1) : block[m] # "\n"
    IN  SubSeq(block, first, eol - 1)

\* C9: every discovered path lies strictly below the root, relative_to
\* never raises, and the path in each header is non-empty, has no leading
\* separator and is the file's path with the root prefix removed.
C9_HeaderPathRootRelative ==
    /\ \A i \in DOMAIN finds : \A p \in Range(finds[i].list) :
          Len(p) > Len(root) /\ SubSeq(p, 1, Len(root)) = root
    /\ pc = "crashed" => ~CanOpen(output)
    /\ \A k \in DOMAIN out :
          LET t == HeaderPath(out[k])
          IN  /\ t # <<>>
              /\ t[1] # "/"
              /\ PathStr(root) \o <<"/">> \o t = PathStr(ts_files[k])

\* A block has been written for a file three levels below the root.
C9_Witness ==
    \E k \in DOMAIN out : Len(ts_files[k]) = Len(root) + 3

\* C10: of two successive runs that return, the second ends with the list
\* and the output file the first ended with.
C10_SecondRunSameResult ==
    \A i \in 1..(Len(ends) - 1) :
        /\ ends[i + 1].list = ends[i].list
        /\ ends[i + 1].file = ends[i].file

====
